---------------------------- MODULE Spec2Model ----------------------------
(***************************************************************************)
(* A model of the Gigapan tile downloader (src/main.py): the durable job   *)
(* queue kept in queue.txt, the grid computation, the concurrent tile      *)
(* fetcher and the tile assembler.                                         *)
(***************************************************************************)
EXTENDS Integers, Sequences, FiniteSets, TLC

(***************************************************************************)
(* Bounds of the model.                                                    *)
(***************************************************************************)
\* longest photo_ids list handed to one add_to_queue call
MaxAddLen == 2
\* longest queue.txt (in lines) the model lets Add build
MaxQueueLen == 3
\* longest hand-written queue.txt (in lines) a run starts from
MaxInitLen == 2
\* largest small image dimension tried by the grid computation
MaxDim == 6
\* largest small tile size tried by the grid computation
MaxTile == 3
\* largest number of tiles (wt * ht) of a get_tiles call
MaxTiles == 3
\* largest body, in bytes, the tile server returns
MaxTileBytes == 2
\* size of the worker pool the model runs (the program runs 20)
MaxWorkers == 2
\* largest canvas width and height the assembler is run on
MaxCanvas == 4
\* largest height and width of a decoded tile
MaxTilePix == 3

\* the job ids used as inputs (argparse type=int, main.py:186)
PhotoIds == {1, 2, 42}

VARIABLES
    qExists,      \* os.path.exists("queue.txt")
    qLines,       \* the lines of queue.txt, each without its "\n"
    addPc,        \* position of add_to_queue
    addIds,       \* its photo_ids argument (kept after the call returns)
    addExisting,  \* its existing_ids set
    addStart,     \* history: the store when the last Add call began
    owed,         \* history: the ids Add appended whose pipeline has not
                  \* completed since
    procPc,       \* position of the process-queue loop
    procLine,     \* line, the stripped first line read
    procId,       \* photo_id = int(line)
    remLines,     \* lines, as read by remove_first_line
    procStart,    \* history: the store when the current Process call began
    iterStore,    \* history: the store when the current iteration began
    retryLine,    \* history: the line whose pipeline raised, until re-read
    runs,         \* history: ids whose pipeline was started in this call
    completed,    \* history: ids whose pipeline completed in this call
    removed,      \* history: number of first-line removals in this call
    gPc,          \* position of the grid computation
    gWidth,       \* width, from the descriptor's maxWidth
    gHeight,      \* height, from maxHeight
    gTile,        \* tile_size, from tileSize
    gMaxLevel,    \* maxlevel
    gWt,          \* wt, the number of tile columns
    gHt,          \* ht, the number of tile rows
    fPc,          \* position of get_tiles (the calling thread)
    fWt,          \* its wt argument
    fHt,          \* its ht argument
    fSubmitted,   \* number of download_tile tasks submitted to the executor
    fResultIdx,   \* index of the future whose result() is awaited
    nextStart,    \* the next task of the executor's work queue
    cache,        \* per coordinate, the file <tiles_path>/<j>-<i>.png
    cache0,       \* history: the files when the current call began
    tPc,          \* per task, position of download_tile
    tOut,         \* per task, how download_tile ended
    tSize,        \* per task, download_size = len(data)
    tTmp,         \* per task, the counter value read by +=
    tExc,         \* per task, whether its future holds an exception
    netCalls,     \* history: per task, the urlopen calls made
    reported,     \* history: per task, the bytes it added to the counter
    tDone,        \* history: per task, the number of times it finished
    fBytes,       \* stats["downloaded_bytes"]
    lock,         \* holder of lock: 0 none, k task k
    stopEvent,    \* stop_event
    repPc,        \* position of report_speed
    aPc,          \* position of assemble_tiles
    aWidth,       \* its width argument
    aHeight,      \* its height argument
    aTile,        \* its tile_size argument
    aJ,           \* j, the row of the cell being visited
    aI,           \* i, the column of the cell being visited
    aBlock,       \* history: the block copied last
    aProbe,       \* a pixel <<y, x>> of the canvas, any one
    aPixel,       \* final_image[y, x] for that pixel: zero, or a pixel of the
                  \* tile of cell (row, col), which may be over tile_size
    aGap,         \* history: the cell of that pixel had no decodable file
    aOut          \* shape of the image cv2.imwrite was given

qvars == <<qExists, qLines, addPc, addIds, addExisting, procPc, procLine,
           procId, remLines, procStart, iterStore, retryLine, runs,
           completed, removed, addStart, owed>>

addVars == <<addPc, addIds, addExisting, addStart, owed>>

procVars == <<procPc, procLine, procId, remLines, procStart, iterStore,
              retryLine, runs, completed, removed>>

gvars == <<gPc, gWidth, gHeight, gTile, gMaxLevel, gWt, gHt>>

fvars == <<fPc, fWt, fHt, fSubmitted, fResultIdx, nextStart, cache, cache0,
           tPc, tOut, tSize, tTmp, tExc, netCalls, reported, tDone, fBytes, lock,
           stopEvent, repPc>>

avars == <<aPc, aWidth, aHeight, aTile, aJ, aI, aBlock, aProbe, aPixel, aGap,
           aOut>>

vars == <<qvars, gvars, fvars, avars>>

(***************************************************************************)
(* Text: a line is a sequence of one-character strings.                    *)
(***************************************************************************)
Digits == <<"0", "1", "2", "3", "4", "5", "6", "7", "8", "9">>

DigitSet == {Digits[k] : k \in 1..10}

DigitVal(c) == (CHOOSE k \in 1..10 : Digits[k] = c) - 1

\* str(photo_id) for a non-negative int
RECURSIVE Str(_)
Str(n) ==
    IF n < 10 THEN <<Digits[n + 1]>>
    ELSE Str(n \div 10) \o <<Digits[(n % 10) + 1]>>

\* str.strip(): leading and trailing whitespace removed
RECURSIVE LStrip(_)
LStrip(s) == IF s # <<>> /\ Head(s) = " " THEN LStrip(Tail(s)) ELSE s

RECURSIVE RStrip(_)
RStrip(s) ==
    IF s # <<>> /\ s[Len(s)] = " " THEN RStrip(SubSeq(s, 1, Len(s) - 1)) ELSE s

Strip(s) == RStrip(LStrip(s))

\* int(line) raises ValueError unless the text is a decimal numeral
IsNumeral(s) == s # <<>> /\ \A k \in 1..Len(s) : s[k] \in DigitSet

RECURSIVE IntOf(_)
IntOf(s) ==
    IF s = <<>> THEN 0
    ELSE 10 * IntOf(SubSeq(s, 1, Len(s) - 1)) + DigitVal(s[Len(s)])

\* all sequences over S of length 1..n
RECURSIVE SeqsUpTo(_, _)
SeqsUpTo(S, n) ==
    IF n = 0 THEN {<<>>}
    ELSE LET shorter == SeqsUpTo(S, n - 1)
         IN  shorter \cup {Append(s, x) : s \in shorter, x \in S}

Range(s) == {s[k] : k \in 1..Len(s)}

\* the bytes of a text file whose lines are given, each ended by "\n"
RECURSIVE Bytes(_)
Bytes(lines) ==
    IF lines = <<>> THEN <<>>
    ELSE Head(lines) \o <<"\n">> \o Bytes(Tail(lines))

\* file.readlines() without the line ends: the bytes cut after each "\n";
\* bytes after the last "\n" are a line of their own
RECURSIVE Lines(_)
Lines(b) ==
    IF b = <<>> THEN <<>>
    ELSE IF \E k \in 1..Len(b) : b[k] = "\n"
         THEN LET k == CHOOSE i \in 1..Len(b) :
                           /\ b[i] = "\n"
                           /\ \A j \in 1..(i - 1) : b[j] # "\n"
              IN  <<SubSeq(b, 1, k - 1)>> \o Lines(SubSeq(b, k + 1, Len(b)))
         ELSE <<b>>

\* a file after data is written at offset 0 of it: the bytes beyond the
\* data stay
WrittenOver(old, data) == data \o SubSeq(old, Len(data) + 1, Len(old))

(***************************************************************************)
(* The grid computation (main, lines 203-204, repeated at 223-224,         *)
(* 243-244, 277-278, 297-298 and 317-318)                                  *)
(***************************************************************************)
Max(a, b) == IF a >= b THEN a ELSE b

Min(a, b) == IF a <= b THEN a ELSE b

RECURSIVE Pow2(_)
Pow2(k) == IF k = 0 THEN 1 ELSE 2 * Pow2(k - 1)

\* the integer part of log2(q), q >= 1
RECURSIVE FloorLog2(_)
FloorLog2(q) == IF q < 2 THEN 0 ELSE 1 + FloorLog2(q \div 2)

\* a quotient rounded down instead of up
FloorDiv(a, b) == a \div b

\* math.ceil(a / b) for positive ints: the quotient a / b is a double, and
\* below 2^31 its ceiling is the ceiling of the exact quotient
CeilDiv(a, b) == (a + b - 1) \div b

\* The exponents k for which math.log(2.0 ** k, 2), which CPython computes
\* as log(x) / log(2) in IEEE doubles, comes out above k: below 2^31 only
\* k = 29, where it is 29.000000000000004.
FloatLogAbove == {29}

\* math.ceil(math.log(m / t, 2)) for positive ints m, t
CeilLog(m, t) ==
    IF m >= t
    THEN LET q == CeilDiv(m, t)
             k == FloorLog2(q)
         IN  IF q = Pow2(k)
             THEN IF m = t * q /\ k \in FloatLogAbove THEN k + 1 ELSE k
             ELSE k + 1
    ELSE 0 - FloorLog2(t \div m)

\* line 203: maxlevel
MaxLevelOf(width, height, tile_size) == CeilLog(Max(width, height), tile_size)

\* a slip of line 204: the count without the extra row or column
TileCountNoExtra(dim, tile_size) == CeilDiv(dim, tile_size)

\* line 204: math.ceil(dim / tile_size) + 1
TileCount(dim, tile_size) == CeilDiv(dim, tile_size) + 1

GridIdle ==
    /\ gPc = "idle"
    /\ gWidth = 1
    /\ gHeight = 1
    /\ gTile = 1
    /\ gMaxLevel = 0
    /\ gWt = 0
    /\ gHt = 0

\* lines 203-204
GridCompute ==
    /\ gPc = "input"
    /\ gMaxLevel' = MaxLevelOf(gWidth, gHeight, gTile)
    /\ gWt' = TileCount(gWidth, gTile)
    /\ gHt' = TileCount(gHeight, gTile)
    /\ gPc' = "done"
    /\ UNCHANGED <<gWidth, gHeight, gTile>>

(***************************************************************************)
(* get_tiles, download_tile and report_speed                               *)
(***************************************************************************)
\* the tasks of one call, numbered in the order of lines 107-110:
\* for j in range(ht) for i in range(wt)
NumTiles == fWt * fHt

Tasks == 1..NumTiles

\* a slip of the comprehension: every task of a row gets column 0
CoordRowOnly(k) == [row |-> (k - 1) \div fWt, col |-> 0]

\* lines 108-109: the (j, i) of the k-th task submitted
Coord(k) == [row |-> (k - 1) \div fWt, col |-> (k - 1) % fWt]

\* line 109: the coordinates the comprehension ranges over
GridCells == {[row |-> j, col |-> i] : j \in 0..(fHt - 1), i \in 0..(fWt - 1)}

TileSlots == 1..MaxTiles

Running == {"open", "transfer", "acquire", "store"}

InFlight == Cardinality({k \in Tasks : tPc[k] \in Running})

\* a pool that starts a thread for every task
PoolUnbounded(n) == TRUE

\* line 105: ThreadPoolExecutor(max_workers=...) runs a queued task only on
\* a worker that is not running one, and has at most max_workers workers
PoolHasRoom(n) == n < MaxWorkers

\* a join that does not wait
JoinedNoWait(pc) == TRUE

\* line 117: reporter.join() returns once report_speed has returned
Joined(pc) == pc = "exited"

\* a check that never finds the file
IsFileNever(state) == FALSE

\* line 58: os.path.isfile(filename)
IsFile(state) == state # "absent"

\* a mutual-exclusion lock that excludes nothing
LockNeverHeld(l) == TRUE

\* lines 71 and 97: with lock
LockFree(l) == l = 0

\* an except clause that lets the error through
ExceptionEscapesAlways == TRUE

\* lines 63 and 76: the try block spans every network and file step and
\* except Exception catches what they raise
ExceptionEscapes == FALSE

SumOver(f, S) ==
    LET RECURSIVE Sum(_)
        Sum(T) == IF T = {} THEN 0
                  ELSE LET x == CHOOSE y \in T : TRUE
                       IN  f[x] + Sum(T \ {x})
    IN  Sum(S)

FetchIdle ==
    /\ fPc = "idle"
    /\ fWt = 1
    /\ fHt = 1
    /\ fSubmitted = 0
    /\ fResultIdx = 0
    /\ nextStart = 1
    /\ cache = [k \in TileSlots |-> "absent"]
    /\ cache0 = [k \in TileSlots |-> "absent"]
    /\ tPc = [k \in TileSlots |-> "none"]
    /\ tOut = [k \in TileSlots |-> "none"]
    /\ tSize = [k \in TileSlots |-> 0]
    /\ tTmp = [k \in TileSlots |-> 0]
    /\ tExc = [k \in TileSlots |-> FALSE]
    /\ netCalls = [k \in TileSlots |-> 0]
    /\ reported = [k \in TileSlots |-> 0]
    /\ tDone = [k \in TileSlots |-> 0]
    /\ fBytes = 0
    /\ lock = 0
    /\ stopEvent = FALSE
    /\ repPc = "none"

\* lines 81-103: the counter, the lock and the event are created and the
\* reporter thread is started
FetchCall ==
    /\ fPc = "idle"
    /\ fPc' = "submit"
    /\ fSubmitted' = 0
    /\ fResultIdx' = 0
    /\ nextStart' = 1
    /\ tPc' = [k \in TileSlots |-> "none"]
    /\ tOut' = [k \in TileSlots |-> "none"]
    /\ tSize' = [k \in TileSlots |-> 0]
    /\ tTmp' = [k \in TileSlots |-> 0]
    /\ tExc' = [k \in TileSlots |-> FALSE]
    /\ netCalls' = [k \in TileSlots |-> 0]
    /\ reported' = [k \in TileSlots |-> 0]
    /\ tDone' = [k \in TileSlots |-> 0]
    /\ fBytes' = 0
    /\ lock' = 0
    /\ stopEvent' = FALSE
    /\ repPc' = "wait"
    /\ cache0' = cache
    /\ UNCHANGED <<fWt, fHt, cache>>

\* lines 107-110: executor.submit, one task per coordinate
FetchSubmit ==
    /\ fPc = "submit"
    /\ IF fSubmitted < NumTiles
       THEN /\ fSubmitted' = fSubmitted + 1
            /\ tPc' = [tPc EXCEPT ![fSubmitted + 1] = "queued"]
            /\ UNCHANGED <<cache0, fPc, fResultIdx>>
       ELSE /\ fPc' = "result"
            /\ fResultIdx' = 1
            /\ UNCHANGED <<fSubmitted, tPc>>
    /\ UNCHANGED <<cache0, fWt, fHt, nextStart, cache, tOut, tSize, tTmp, tExc,
                   netCalls, reported, tDone, fBytes, lock, stopEvent, repPc>>

\* lines 113-115: future.result() for each future in turn, which waits for
\* the task and raises what the task raised; then the executor is shut down
FetchResult ==
    /\ fPc = "result"
    /\ IF fResultIdx > NumTiles
       THEN /\ \A k \in Tasks : tPc[k] = "done"
            /\ fPc' = "stop"
            /\ UNCHANGED fResultIdx
       ELSE /\ tPc[fResultIdx] = "done"
            /\ IF tExc[fResultIdx]
               THEN fPc' = "raised" /\ UNCHANGED fResultIdx
               ELSE fResultIdx' = fResultIdx + 1 /\ UNCHANGED fPc
    /\ UNCHANGED <<cache0, fWt, fHt, fSubmitted, nextStart, cache, tPc, tOut, tSize,
                   tTmp, tExc, netCalls, reported, tDone, fBytes, lock,
                   stopEvent, repPc>>

\* line 116: stop_event.set()
FetchStop ==
    /\ fPc = "stop"
    /\ stopEvent' = TRUE
    /\ fPc' = "join"
    /\ UNCHANGED <<cache0, fWt, fHt, fSubmitted, fResultIdx, nextStart, cache, tPc,
                   tOut, tSize, tTmp, tExc, netCalls, reported, tDone, fBytes,
                   lock, repPc>>

\* line 117: reporter.join()
FetchJoin ==
    /\ fPc = "join"
    /\ Joined(repPc)
    /\ fPc' = "returned"
    /\ UNCHANGED <<cache0, fWt, fHt, fSubmitted, fResultIdx, nextStart, cache, tPc,
                   tOut, tSize, tTmp, tExc, netCalls, reported, tDone, fBytes,
                   lock, stopEvent, repPc>>

\* get_tiles has returned to main; the tile cache stays on disk
FetchReturn ==
    /\ fPc = "returned"
    /\ fPc' = "idle"
    /\ UNCHANGED <<cache0, fWt, fHt, fSubmitted, fResultIdx, nextStart, cache,
                   tPc, tOut, tSize, tTmp, tExc, netCalls, reported, tDone,
                   fBytes, lock, stopEvent, repPc>>

\* a worker of the pool takes the next task of the work queue and runs
\* lines 57-60: an existing file ends the task at once
TaskStart(k) ==
    /\ k = nextStart
    /\ k <= fSubmitted
    /\ tPc[k] = "queued"
    /\ PoolHasRoom(InFlight)
    /\ nextStart' = k + 1
    /\ IF IsFile(cache[k])
       THEN /\ tPc' = [tPc EXCEPT ![k] = "done"]
            /\ tOut' = [tOut EXCEPT ![k] = "hit"]
            /\ tDone' = [tDone EXCEPT ![k] = @ + 1]
       ELSE /\ tPc' = [tPc EXCEPT ![k] = "open"]
            /\ UNCHANGED <<tOut, tDone>>
    /\ UNCHANGED <<cache0, fPc, fWt, fHt, fSubmitted, fResultIdx, cache, tSize, tTmp,
                   tExc, netCalls, reported, fBytes, lock, stopEvent, repPc>>

\* lines 76-77: the error is logged and download_tile returns
TaskFail(k) ==
    /\ tPc' = [tPc EXCEPT ![k] = "done"]
    /\ tOut' = [tOut EXCEPT ![k] = "failed"]
    /\ tExc' = [tExc EXCEPT ![k] = ExceptionEscapes]
    /\ tDone' = [tDone EXCEPT ![k] = @ + 1]

\* line 65: urlopen(url), then open(filename, "wb"), which creates the file
TaskOpen(k, ok) ==
    /\ tPc[k] = "open"
    /\ netCalls' = [netCalls EXCEPT ![k] = @ + 1]
    /\ IF ok
       THEN /\ cache' = [cache EXCEPT ![k] = "empty"]
            /\ tPc' = [tPc EXCEPT ![k] = "transfer"]
            /\ UNCHANGED <<tOut, tExc, tDone>>
       ELSE /\ TaskFail(k)
            /\ UNCHANGED cache
    /\ UNCHANGED <<cache0, fPc, fWt, fHt, fSubmitted, fResultIdx, nextStart, tSize,
                   tTmp, reported, fBytes, lock, stopEvent, repPc>>

\* lines 66-69: data = response.read(); fout.write(data); the file is
\* closed.  A failed read leaves the created file empty, a failed write
\* leaves it short.
TaskTransfer(k, result, n) ==
    /\ tPc[k] = "transfer"
    /\ IF result = "ok"
       THEN /\ cache' = [cache EXCEPT ![k] = "full"]
            /\ tSize' = [tSize EXCEPT ![k] = n]
            /\ tPc' = [tPc EXCEPT ![k] = "acquire"]
            /\ UNCHANGED <<tOut, tExc, tDone>>
       ELSE /\ cache' = [cache EXCEPT ![k] = IF result = "read_error"
                                             THEN "empty" ELSE "partial"]
            /\ TaskFail(k)
            /\ UNCHANGED tSize
    /\ UNCHANGED <<cache0, fPc, fWt, fHt, fSubmitted, fResultIdx, nextStart, tTmp,
                   netCalls, reported, fBytes, lock, stopEvent, repPc>>

\* lines 71-72: with lock, and the read of
\* stats["downloaded_bytes"] += download_size
TaskAcquire(k) ==
    /\ tPc[k] = "acquire"
    /\ LockFree(lock)
    /\ lock' = k
    /\ tTmp' = [tTmp EXCEPT ![k] = fBytes]
    /\ tPc' = [tPc EXCEPT ![k] = "store"]
    /\ UNCHANGED <<cache0, fPc, fWt, fHt, fSubmitted, fResultIdx, nextStart, cache,
                   tOut, tSize, tExc, netCalls, reported, tDone, fBytes,
                   stopEvent, repPc>>

\* line 72: the write of +=, and the lock is released.  Lines 73-75 only
\* log; an error of theirs is caught at line 76 and changes nothing.
TaskStore(k) ==
    /\ tPc[k] = "store"
    /\ fBytes' = tTmp[k] + tSize[k]
    /\ reported' = [reported EXCEPT ![k] = tSize[k]]
    /\ lock' = IF lock = k THEN 0 ELSE lock
    /\ tPc' = [tPc EXCEPT ![k] = "done"]
    /\ tOut' = [tOut EXCEPT ![k] = "ok"]
    /\ tDone' = [tDone EXCEPT ![k] = @ + 1]
    /\ tTmp' = [tTmp EXCEPT ![k] = 0]
    /\ UNCHANGED <<cache0, fPc, fWt, fHt, fSubmitted, fResultIdx, nextStart, cache,
                   tSize, tExc, netCalls, stopEvent, repPc>>

\* line 95: stop_event.wait(1) returns the flag after at most a second
RepWait ==
    /\ repPc = "wait"
    /\ repPc' = IF stopEvent THEN "exited" ELSE "acquire"
    /\ UNCHANGED <<cache0, fPc, fWt, fHt, fSubmitted, fResultIdx, nextStart, cache,
                   tPc, tOut, tSize, tTmp, tExc, netCalls, reported, tDone,
                   fBytes, lock, stopEvent>>

\* lines 97-100: with lock, the counter is read; the speed is logged
RepSample ==
    /\ repPc = "acquire"
    /\ LockFree(lock)
    /\ repPc' = "wait"
    /\ UNCHANGED <<cache0, fPc, fWt, fHt, fSubmitted, fResultIdx, nextStart, cache,
                   tPc, tOut, tSize, tTmp, tExc, netCalls, reported, tDone,
                   fBytes, lock, stopEvent>>

(***************************************************************************)
(* assemble_tiles                                                          *)
(***************************************************************************)
\* what a cell's cache file holds: nothing (no file), bytes cv2.imread
\* cannot decode, or an image of h rows and w columns
TileFiles ==
    {[kind |-> "absent", h |-> 0, w |-> 0], [kind |-> "corrupt", h |-> 0, w |-> 0]}
        \cup {[kind |-> "tile", h |-> h, w |-> w] : h, w \in 1..MaxTilePix}

\* a slip of the range: one row or column more
LastCellPlusOne(dim, tile_size) == (dim \div tile_size) + 1

\* lines 37-38: range((dim // tile_size) + 1) ends at dim // tile_size
LastCell(dim, tile_size) == dim \div tile_size

\* lines 37-38: the number of rows (columns) the loops visit,
\* len(range((dim // tile_size) + 1))
AsmCount(dim, tile_size) == LastCell(dim, tile_size) + 1

\* the number of elements a[start:stop] selects of n, as Python slices do:
\* a negative bound counts from the end, and bounds are clipped to 0..n
SliceLen(start, stop, n) ==
    LET Norm(v) == IF v < 0 THEN Max(0, v + n) ELSE Min(v, n)
    IN  Max(0, Norm(stop) - Norm(start))

\* numpy assigns a block of r elements to a slice of l along one axis when
\* the lengths agree or the block has length 1
Broadcasts(r, l) == r = l \/ r = 1

NoBlock == [copied |-> FALSE, row |-> 0, col |-> 0, y |-> 0, x |-> 0,
            h |-> 0, w |-> 0, tileH |-> 0, tileW |-> 0]

\* whether index p lies in a[start:stop] of n, by the same slice rules
SliceHas(p, start, stop, n) ==
    LET Norm(v) == IF v < 0 THEN Max(0, v + n) ELSE Min(v, n)
    IN  Norm(start) <= p /\ p < Norm(stop)

\* line 35: np.zeros, the value of a pixel nothing was copied to
FillPixel == [painted |-> FALSE, row |-> 0, col |-> 0, over |-> FALSE]

\* no image has been written
NoShape == [h |-> 0, w |-> 0]

\* line 40: os.path.exists(tile_filename)
Exists(f) == f.kind # "absent"

\* a check that takes every file for an image
TileIsNoneNever(f) == FALSE

\* lines 41-42: cv2.imread returns None for a file it cannot decode (and
\* for a path it cannot read)
TileIsNone(f) == f.kind # "tile"

AsmIdle ==
    /\ aPc = "idle"
    /\ aWidth = 1
    /\ aHeight = 1
    /\ aTile = 1
    /\ aJ = 0
    /\ aI = 0
    /\ aBlock = NoBlock
    /\ aProbe = <<0, 0>>
    /\ aPixel = FillPixel
    /\ aGap = FALSE
    /\ aOut = NoShape

\* lines 34-35: the canvas of height x width zeros is allocated
AsmCall ==
    /\ aPc = "idle"
    /\ aPc' = "loop"
    /\ aJ' = 0
    /\ aI' = 0
    /\ aBlock' = NoBlock
    /\ aPixel' = FillPixel
    /\ aGap' = FALSE
    /\ aOut' = NoShape
    /\ UNCHANGED <<aWidth, aHeight, aTile, aProbe>>

\* lines 39-49: one cell of the loops, whose cache file holds f.  A file
\* that passes both checks is used as an image: tile.shape of None raises.
AsmCell(f) ==
    /\ aPc = "loop"
    /\ LET y == aJ * aTile
           x == aI * aTile
           tile_h == Min(f.h, aHeight - y)
           tile_w == Min(f.w, aWidth - x)
           used == Exists(f) /\ ~TileIsNone(f)
           fits == /\ f.kind = "tile"
                   /\ Broadcasts(SliceLen(0, tile_h, f.h),
                                 SliceLen(y, y + tile_h, aHeight))
                   /\ Broadcasts(SliceLen(0, tile_w, f.w),
                                 SliceLen(x, x + tile_w, aWidth))
           covers == /\ SliceHas(aProbe[1], y, y + tile_h, aHeight)
                     /\ SliceHas(aProbe[2], x, x + tile_w, aWidth)
           owns == aProbe[1] \div aTile = aJ /\ aProbe[2] \div aTile = aI
           more == aI < LastCell(aWidth, aTile) \/ aJ < LastCell(aHeight, aTile)
       IN  /\ aBlock' = IF used /\ f.kind = "tile"
                        THEN [copied |-> TRUE, row |-> aJ, col |-> aI,
                              y |-> y, x |-> x, h |-> tile_h, w |-> tile_w,
                              tileH |-> f.h, tileW |-> f.w]
                        ELSE NoBlock
           /\ aPixel' = IF used /\ fits /\ covers
                        THEN [painted |-> TRUE, row |-> aJ, col |-> aI,
                              over |-> (f.h > aTile \/ f.w > aTile)]
                        ELSE aPixel
           /\ aGap' = (aGap \/ (owns /\ f.kind # "tile"))
           /\ aPc' = IF used /\ ~fits THEN "raised"
                     ELSE IF more THEN "loop" ELSE "write"
           /\ aI' = IF aI < LastCell(aWidth, aTile) THEN aI + 1 ELSE 0
           /\ aJ' = IF aI < LastCell(aWidth, aTile) THEN aJ ELSE aJ + 1
    /\ UNCHANGED <<aWidth, aHeight, aTile, aProbe, aOut>>

\* lines 51-53: the canvas, whose shape is that of its allocation at
\* line 35, is written to <photo_id>_assembled.tiff
AsmWrite ==
    /\ aPc = "write"
    /\ aPc' = "done"
    /\ aOut' = [h |-> aHeight, w |-> aWidth]
    /\ UNCHANGED <<aWidth, aHeight, aTile, aJ, aI, aBlock, aProbe, aPixel,
                   aGap>>

(***************************************************************************)
(* add_to_queue                                                            *)
(***************************************************************************)
\* a test that takes every candidate for new
NotYetQueuedAlways(photo_id, existing) == TRUE

\* the membership test of the write loop: existing_ids is the set read from
\* the file before the loop and is not extended while the loop runs
NotYetQueued(photo_id, existing) == Str(photo_id) \notin existing

\* the lines the write loop appends for photo_ids[k..]
RECURSIVE AppendedLines(_, _, _)
AppendedLines(ids, existing, written) ==
    IF ids = <<>> THEN written
    ELSE AppendedLines(Tail(ids), existing,
                       IF NotYetQueued(Head(ids), existing)
                       THEN Append(written, Str(Head(ids)))
                       ELSE written)

AddCall(ids) ==
    /\ addPc = "idle"
    /\ Len(qLines) + Len(ids) <= MaxQueueLen
    /\ addPc' = "read"
    /\ addIds' = ids
    /\ addExisting' = {}
    /\ addStart' = IF qExists THEN qLines ELSE <<>>
    /\ UNCHANGED <<qExists, qLines, procVars, owed>>

\* lines 136-139: existing_ids = set(line.strip() for line in file)
AddRead ==
    /\ addPc = "read"
    /\ addExisting' = IF qExists THEN {Strip(qLines[k]) : k \in 1..Len(qLines)}
                      ELSE {}
    /\ addPc' = "open"
    /\ UNCHANGED <<qExists, qLines, addIds, addStart, owed, procVars>>

\* line 141: open(queue_file, "a") creates the file when it is absent
AddOpen ==
    /\ addPc = "open"
    /\ qExists' = TRUE
    /\ addPc' = "write"
    /\ UNCHANGED <<qLines, addIds, addExisting, addStart, owed, procVars>>

\* lines 142-145: the loop's writes, which reach the end of the file (it is
\* opened for append) when the with block closes it
AddWrite ==
    /\ addPc = "write"
    /\ LET written == AppendedLines(addIds, addExisting, <<>>)
       IN  /\ qLines' = qLines \o written
           /\ owed' = owed \cup {IntOf(l) : l \in Range(written)}
    /\ addPc' = "idle"
    /\ addExisting' = {}
    /\ UNCHANGED <<qExists, addIds, addStart, procVars>>

(***************************************************************************)
(* process-queue (main, lines 228-247) and remove_first_line               *)
(***************************************************************************)
\* the pipeline of one job, in the order of lines 236-246: the metadata
\* fetch and parse, the grid computation, get_tiles, assemble_tiles
Stages == <<"resolve", "grid", "fetch", "assemble">>

StageNo(pc) == CHOOSE k \in 1..Len(Stages) : Stages[k] = pc

\* a slip of the slice: lines[:-1], which drops the last line
DropLast(lines) ==
    IF lines = <<>> THEN <<>> ELSE SubSeq(lines, 1, Len(lines) - 1)

\* a slip of the slice: lines[0:], which drops nothing
KeepAll(lines) == lines

\* line 131: lines[1:]
RestOf(lines) == IF lines = <<>> THEN <<>> ELSE Tail(lines)

\* Process is chosen (the process-queue command, menu choice 4)
ProcCall ==
    /\ procPc = "idle"
    /\ procPc' = "loop"
    /\ procStart' = IF qExists THEN qLines ELSE <<>>
    /\ runs' = <<>>
    /\ completed' = <<>>
    /\ removed' = 0
    /\ UNCHANGED <<qExists, qLines, addVars, procLine, procId, remLines,
                   iterStore, retryLine>>

\* line 229: while os.path.exists(...) and os.path.getsize(...) > 0
ProcLoop ==
    /\ procPc = "loop"
    /\ procPc' = IF qExists /\ Len(qLines) > 0 THEN "read" ELSE "done"
    /\ iterStore' = qLines
    /\ UNCHANGED <<qExists, qLines, addVars, procLine, procId, remLines,
                   procStart, retryLine, runs, completed, removed>>

\* lines 230-233: line = queue.readline().strip(); a blank line breaks
ProcReadLine ==
    /\ procPc = "read"
    /\ procLine' = IF Len(qLines) > 0 THEN Strip(Head(qLines)) ELSE <<>>
    /\ procPc' = IF procLine' = <<>> THEN "done" ELSE "parse"
    /\ UNCHANGED <<qExists, qLines, addVars, procId, remLines, procStart,
                   iterStore, retryLine, runs, completed, removed>>

\* a handler that drops the failed entry on the way out
ProcRaisePop ==
    /\ procPc' = "crashed"
    /\ retryLine' = procLine
    /\ qLines' = RestOf(qLines)
    /\ UNCHANGED <<qExists, addVars, procLine, procId, remLines,
                   procStart, iterStore, runs, completed, removed>>

\* an exception leaves the loop and main: no handler catches it and nothing
\* is written to the store on the way out
ProcRaise ==
    /\ procPc' = "crashed"
    /\ retryLine' = procLine
    /\ UNCHANGED <<qExists, qLines, addVars, procLine, procId, remLines,
                   procStart, iterStore, runs, completed, removed>>

\* line 234: photo_id = int(line)
ProcParse ==
    /\ procPc = "parse"
    /\ IF IsNumeral(procLine)
       THEN /\ procId' = IntOf(procLine)
            /\ procPc' = "resolve"
            /\ runs' = Append(runs, procId')
            /\ retryLine' = <<>>
            /\ UNCHANGED <<qExists, qLines, addVars, procLine, remLines,
                           procStart, iterStore, completed, removed>>
       ELSE ProcRaise

\* lines 236-246: one stage of the pipeline returns or raises
ProcStage(ok) ==
    /\ procPc \in Range(Stages)
    /\ IF ok
       THEN /\ procPc' = IF StageNo(procPc) < Len(Stages)
                         THEN Stages[StageNo(procPc) + 1]
                         ELSE "rem_read"
            /\ completed' = IF StageNo(procPc) < Len(Stages)
                            THEN completed
                            ELSE Append(completed, procId)
            /\ owed' = IF StageNo(procPc) < Len(Stages)
                       THEN owed
                       ELSE owed \ {procId}
            /\ UNCHANGED <<qExists, qLines, addPc, addIds, addExisting,
                           addStart, procLine, procId, remLines, procStart,
                           iterStore, retryLine, runs, removed>>
       ELSE ProcRaise

\* lines 128-129: lines = file.readlines()
RemRead ==
    /\ procPc = "rem_read"
    /\ remLines' = qLines
    /\ procPc' = "rem_trunc"
    /\ UNCHANGED <<qExists, qLines, addVars, procLine, procId, procStart,
                   iterStore, retryLine, runs, completed, removed>>

\* line 130: open(file_path, "w") truncates the file
RemTrunc ==
    /\ procPc = "rem_trunc"
    /\ qLines' = <<>>
    /\ qExists' = TRUE
    /\ procPc' = "rem_write"
    /\ UNCHANGED <<addVars, procLine, procId, remLines, procStart,
                   iterStore, retryLine, runs, completed, removed>>

\* line 131: file.writelines(lines[1:]), which reaches the file when the
\* with block closes it: at offset 0 of the file opened at line 130, over
\* whatever was appended to it since
RemWrite ==
    /\ procPc = "rem_write"
    /\ qLines' = Lines(WrittenOver(Bytes(qLines), Bytes(RestOf(remLines))))
    /\ removed' = removed + 1
    /\ procPc' = "loop"
    /\ UNCHANGED <<qExists, addVars, procLine, procId, remLines, procStart,
                   iterStore, retryLine, runs, completed>>

\* the loop has ended and the command returns; its locals are gone
ProcReturn ==
    /\ procPc = "done"
    /\ procPc' = "idle"
    /\ procLine' = <<>>
    /\ procId' = 0
    /\ remLines' = <<>>
    /\ procStart' = <<>>
    /\ iterStore' = <<>>
    /\ runs' = <<>>
    /\ completed' = <<>>
    /\ removed' = 0
    /\ UNCHANGED <<qExists, qLines, addVars, retryLine>>

\* the program is started again after an exception ended it
Restart ==
    /\ procPc = "crashed"
    /\ procPc' = "idle"
    /\ procLine' = <<>>
    /\ procId' = 0
    /\ remLines' = <<>>
    /\ procStart' = <<>>
    /\ iterStore' = <<>>
    /\ runs' = <<>>
    /\ completed' = <<>>
    /\ removed' = 0
    /\ UNCHANGED <<qExists, qLines, addVars, retryLine>>

(***************************************************************************)
(* The queue as one program runs it: the menu loop and the commands run    *)
(* one operation at a time.                                                *)
(***************************************************************************)
InitQueueVars ==
    /\ addPc = "idle"
    /\ addIds = <<>>
    /\ addExisting = {}
    /\ addStart = <<>>
    /\ owed = {}
    /\ procPc = "idle"
    /\ procLine = <<>>
    /\ procId = 0
    /\ remLines = <<>>
    /\ procStart = <<>>
    /\ iterStore = <<>>
    /\ retryLine = <<>>
    /\ runs = <<>>
    /\ completed = <<>>
    /\ removed = 0

\* the store is empty: queue.txt is absent
InitQueue ==
    /\ qExists = FALSE
    /\ qLines = <<>>
    /\ InitQueueVars

Init == InitQueue /\ GridIdle /\ FetchIdle /\ AsmIdle

Next ==
    \/ /\ procPc = "idle"
       /\ \E ids \in SeqsUpTo(PhotoIds, MaxAddLen) \ {<<>>} : AddCall(ids)
       /\ UNCHANGED <<gvars, fvars, avars>>
    \/ AddRead /\ UNCHANGED <<gvars, fvars, avars>>
    \/ AddOpen /\ UNCHANGED <<gvars, fvars, avars>>
    \/ AddWrite /\ UNCHANGED <<gvars, fvars, avars>>
    \/ addPc = "idle" /\ ProcCall /\ UNCHANGED <<gvars, fvars, avars>>
    \/ ProcLoop /\ UNCHANGED <<gvars, fvars, avars>>
    \/ ProcReadLine /\ UNCHANGED <<gvars, fvars, avars>>
    \/ ProcParse /\ UNCHANGED <<gvars, fvars, avars>>
    \/ \E ok \in BOOLEAN : ProcStage(ok) /\ UNCHANGED <<gvars, fvars, avars>>
    \/ RemRead /\ UNCHANGED <<gvars, fvars, avars>>
    \/ RemTrunc /\ UNCHANGED <<gvars, fvars, avars>>
    \/ RemWrite /\ UNCHANGED <<gvars, fvars, avars>>
    \/ ProcReturn /\ UNCHANGED <<gvars, fvars, avars>>
    \/ Restart /\ UNCHANGED <<gvars, fvars, avars>>

Spec == Init /\ [][Next]_vars

(***************************************************************************)
(* The same program started on a queue.txt that was written by hand: the   *)
(* file is plain text, and a line of it may be blank, padded or no number. *)
(***************************************************************************)
EditedLines == {Str(1), Str(42), <<>>, <<"x">>, <<" ", "2">>}

InitStore ==
    /\ \/ qExists = FALSE /\ qLines = <<>>
       \/ qExists = TRUE /\ qLines \in SeqsUpTo(EditedLines, MaxInitLen)
    /\ InitQueueVars
    /\ GridIdle
    /\ FetchIdle
    /\ AsmIdle

SpecStore == InitStore /\ [][Next]_vars

(***************************************************************************)
(* The same program with the scheduling of its one thread made explicit:   *)
(* a step of the Process loop that can be taken is taken in the end, as    *)
(* the metadata fetch, get_tiles and assemble_tiles each return or raise.  *)
(***************************************************************************)
ProcStep ==
    /\ \/ ProcLoop
       \/ ProcReadLine
       \/ ProcParse
       \/ \E ok \in BOOLEAN : ProcStage(ok)
       \/ RemRead
       \/ RemTrunc
       \/ RemWrite
    /\ UNCHANGED <<gvars, fvars, avars>>

SpecProcess == InitStore /\ [][Next]_vars /\ WF_vars(ProcStep)

(***************************************************************************)
(* Two processes on one queue.txt: add-queue is run while process-queue    *)
(* runs, and their file operations interleave.  Add is called only while   *)
(* the entries in the store (or in the copy of it remove_first_line holds) *)
(* and the pipelines the running Process call has started leave room       *)
(* within MaxQueueLen.                                                     *)
(***************************************************************************)
NextConc ==
    \/ /\ \E ids \in SeqsUpTo(PhotoIds, MaxAddLen) \ {<<>>} :
              /\ Len(runs) + Max(Len(qLines), Len(remLines)) + Len(ids)
                     <= MaxQueueLen
              /\ AddCall(ids)
       /\ UNCHANGED <<gvars, fvars, avars>>
    \/ AddRead /\ UNCHANGED <<gvars, fvars, avars>>
    \/ AddOpen /\ UNCHANGED <<gvars, fvars, avars>>
    \/ AddWrite /\ UNCHANGED <<gvars, fvars, avars>>
    \/ ProcCall /\ UNCHANGED <<gvars, fvars, avars>>
    \/ ProcLoop /\ UNCHANGED <<gvars, fvars, avars>>
    \/ ProcReadLine /\ UNCHANGED <<gvars, fvars, avars>>
    \/ ProcParse /\ UNCHANGED <<gvars, fvars, avars>>
    \/ \E ok \in BOOLEAN : ProcStage(ok) /\ UNCHANGED <<gvars, fvars, avars>>
    \/ RemRead /\ UNCHANGED <<gvars, fvars, avars>>
    \/ RemTrunc /\ UNCHANGED <<gvars, fvars, avars>>
    \/ RemWrite /\ UNCHANGED <<gvars, fvars, avars>>
    \/ ProcReturn /\ UNCHANGED <<gvars, fvars, avars>>
    \/ Restart /\ UNCHANGED <<gvars, fvars, avars>>

SpecConc == Init /\ [][NextConc]_vars

(***************************************************************************)
(* The one program again, now killed at any point of a Process pass (a     *)
(* signal, a power cut): nothing more is written, what was buffered for    *)
(* the file is lost, and the program is started again later.               *)
(***************************************************************************)
Interrupt ==
    /\ procPc \notin {"idle", "crashed"}
    /\ procPc' = "crashed"
    /\ UNCHANGED <<qExists, qLines, addVars, procLine, procId, remLines,
                   procStart, iterStore, retryLine, runs, completed, removed>>

NextCrash ==
    \/ Next
    \/ Interrupt /\ UNCHANGED <<gvars, fvars, avars>>

SpecCrash == Init /\ [][NextCrash]_vars

(***************************************************************************)
(* The grid computation on the geometry a descriptor gives                 *)
(***************************************************************************)
GridDims == (1..MaxDim) \cup {8000, 10000, 536870912}

GridTiles == (1..MaxTile) \cup {256}

InitGrid ==
    /\ gPc = "input"
    /\ gWidth \in GridDims
    /\ gHeight \in GridDims
    /\ gTile \in GridTiles
    /\ gMaxLevel = 0
    /\ gWt = 0
    /\ gHt = 0
    /\ qExists = FALSE
    /\ qLines = <<>>
    /\ InitQueueVars
    /\ FetchIdle
    /\ AsmIdle

NextGrid == GridCompute /\ UNCHANGED <<qvars, fvars, avars>>

SpecGrid == InitGrid /\ [][NextGrid]_vars

(***************************************************************************)
(* get_tiles called, again and again, on one tile directory                *)
(***************************************************************************)
InitFetch ==
    /\ fPc = "idle"
    /\ fWt \in 1..MaxTiles
    /\ fHt \in 1..MaxTiles
    /\ fWt * fHt <= MaxTiles
    /\ fSubmitted = 0
    /\ fResultIdx = 0
    /\ nextStart = 1
    /\ cache = [k \in TileSlots |-> "absent"]
    /\ cache0 = [k \in TileSlots |-> "absent"]
    /\ tPc = [k \in TileSlots |-> "none"]
    /\ tOut = [k \in TileSlots |-> "none"]
    /\ tSize = [k \in TileSlots |-> 0]
    /\ tTmp = [k \in TileSlots |-> 0]
    /\ tExc = [k \in TileSlots |-> FALSE]
    /\ netCalls = [k \in TileSlots |-> 0]
    /\ reported = [k \in TileSlots |-> 0]
    /\ tDone = [k \in TileSlots |-> 0]
    /\ fBytes = 0
    /\ lock = 0
    /\ stopEvent = FALSE
    /\ repPc = "none"
    /\ qExists = FALSE
    /\ qLines = <<>>
    /\ InitQueueVars
    /\ GridIdle
    /\ AsmIdle

NextFetch ==
    \/ FetchCall /\ UNCHANGED <<qvars, gvars, avars>>
    \/ FetchSubmit /\ UNCHANGED <<qvars, gvars, avars>>
    \/ FetchResult /\ UNCHANGED <<qvars, gvars, avars>>
    \/ FetchStop /\ UNCHANGED <<qvars, gvars, avars>>
    \/ FetchJoin /\ UNCHANGED <<qvars, gvars, avars>>
    \/ FetchReturn /\ UNCHANGED <<qvars, gvars, avars>>
    \/ \E k \in Tasks : TaskStart(k) /\ UNCHANGED <<qvars, gvars, avars>>
    \/ \E k \in Tasks, ok \in BOOLEAN :
           TaskOpen(k, ok) /\ UNCHANGED <<qvars, gvars, avars>>
    \/ \E k \in Tasks, result \in {"ok", "read_error", "write_error"},
           n \in 1..MaxTileBytes :
           TaskTransfer(k, result, n) /\ UNCHANGED <<qvars, gvars, avars>>
    \/ \E k \in Tasks : TaskAcquire(k) /\ UNCHANGED <<qvars, gvars, avars>>
    \/ \E k \in Tasks : TaskStore(k) /\ UNCHANGED <<qvars, gvars, avars>>
    \/ RepWait /\ UNCHANGED <<qvars, gvars, avars>>
    \/ RepSample /\ UNCHANGED <<qvars, gvars, avars>>

SpecFetch == InitFetch /\ [][NextFetch]_vars

\* one get_tiles call on an empty tile directory, with the scheduling of
\* the reporter thread: a thread that can run is run in the end
NextFetchOnce ==
    \/ FetchCall /\ UNCHANGED <<qvars, gvars, avars>>
    \/ FetchSubmit /\ UNCHANGED <<qvars, gvars, avars>>
    \/ FetchResult /\ UNCHANGED <<qvars, gvars, avars>>
    \/ FetchStop /\ UNCHANGED <<qvars, gvars, avars>>
    \/ FetchJoin /\ UNCHANGED <<qvars, gvars, avars>>
    \/ \E k \in Tasks : TaskStart(k) /\ UNCHANGED <<qvars, gvars, avars>>
    \/ \E k \in Tasks, ok \in BOOLEAN :
           TaskOpen(k, ok) /\ UNCHANGED <<qvars, gvars, avars>>
    \/ \E k \in Tasks, result \in {"ok", "read_error", "write_error"},
           n \in 1..MaxTileBytes :
           TaskTransfer(k, result, n) /\ UNCHANGED <<qvars, gvars, avars>>
    \/ \E k \in Tasks : TaskAcquire(k) /\ UNCHANGED <<qvars, gvars, avars>>
    \/ \E k \in Tasks : TaskStore(k) /\ UNCHANGED <<qvars, gvars, avars>>
    \/ RepWait /\ UNCHANGED <<qvars, gvars, avars>>
    \/ RepSample /\ UNCHANGED <<qvars, gvars, avars>>

SpecFetchFair ==
    /\ InitFetch
    /\ [][NextFetchOnce]_vars
    /\ WF_vars(RepWait /\ UNCHANGED <<qvars, gvars, avars>>)
    /\ WF_vars(RepSample /\ UNCHANGED <<qvars, gvars, avars>>)

(***************************************************************************)
(* assemble_tiles on a canvas and a tile directory of any content          *)
(***************************************************************************)
InitAsm ==
    /\ aPc = "idle"
    /\ aWidth \in 1..MaxCanvas
    /\ aHeight \in 1..MaxCanvas
    /\ aTile \in 1..MaxTile
    /\ aJ = 0
    /\ aI = 0
    /\ aBlock = NoBlock
    /\ aProbe \in (0..(aHeight - 1)) \X (0..(aWidth - 1))
    /\ aPixel = FillPixel
    /\ aGap = FALSE
    /\ aOut = NoShape
    /\ qExists = FALSE
    /\ qLines = <<>>
    /\ InitQueueVars
    /\ GridIdle
    /\ FetchIdle

NextAsm ==
    \/ AsmCall /\ UNCHANGED <<qvars, gvars, fvars>>
    \/ \E f \in TileFiles : AsmCell(f) /\ UNCHANGED <<qvars, gvars, fvars>>
    \/ AsmWrite /\ UNCHANGED <<qvars, gvars, fvars>>

SpecAsm == InitAsm /\ [][NextAsm]_vars

(***************************************************************************)
(* Properties of the assembler                                             *)
(***************************************************************************)
\* the pixel followed lies in the block copied last
ProbeInBlock ==
    /\ aBlock.y <= aProbe[1]
    /\ aProbe[1] < aBlock.y + aBlock.h
    /\ aBlock.x <= aProbe[2]
    /\ aProbe[2] < aBlock.x + aBlock.w

\* the pixel followed holds a pixel of the tile copied last
PaintedByLastBlock ==
    /\ aPixel.painted
    /\ aPixel.row = aBlock.row
    /\ aPixel.col = aBlock.col

\* C10: every block the assembler copies starts at (row * tileSize,
\* col * tileSize), has a clipped height and width that are not negative,
\* and ends inside the canvas; in the last row or column of a dimension
\* that is a multiple of tileSize the clipped extent is 0; the copy raises
\* no error.
C10_BlockInsideCanvas ==
    /\ aPc # "raised"
    /\ aBlock.copied =>
           /\ aBlock.y = aBlock.row * aTile
           /\ aBlock.x = aBlock.col * aTile
           /\ aBlock.h >= 0
           /\ aBlock.w >= 0
           /\ aBlock.y + aBlock.h <= aHeight
           /\ aBlock.x + aBlock.w <= aWidth
           /\ (aBlock.row * aTile = aHeight) => aBlock.h = 0
           /\ (aBlock.col * aTile = aWidth) => aBlock.w = 0

\* C10 witness: a tile larger than what is left of the canvas was copied
\* clipped, and a tile of the row past an exact multiple with extent 0
C10_Witness ==
    /\ aBlock.copied
    /\ aHeight = 2 * aTile
    /\ aBlock.row = 2
    /\ aBlock.h = 0
    /\ aBlock.tileH > 0
    /\ aBlock.tileW > aWidth - aBlock.x
    /\ aBlock.w = aWidth - aBlock.x
    /\ aBlock.w > 0

AtBarrier == fPc \in {"stop", "join", "returned"}

Downloaded == {k \in Tasks : tOut[k] = "ok"}

\* C4: a cache file exists only for a tile whose body was completely
\* downloaded and written: a task that failed leaves no file for its
\* coordinate, and a task skips only a complete file.
C4_CacheOnlyIfComplete ==
    \A k \in Tasks :
        /\ tOut[k] = "failed" => cache[k] = "absent"
        /\ tOut[k] = "hit" => cache[k] = "full"

\* C5: a task whose cache file exists when it starts makes no network call
\* and leaves the file and the byte counter as they were; a call that
\* begins with a file for every coordinate makes no network call at all.
C5_CachedTileSkipped ==
    /\ \A k \in Tasks :
           (fPc # "idle" /\ tPc[k] \notin {"none", "queued"}
                /\ cache0[k] # "absent")
               => /\ tPc[k] = "done"
                  /\ netCalls[k] = 0
                  /\ reported[k] = 0
                  /\ cache[k] = cache0[k]
    /\ (fPc # "idle" /\ \A k \in Tasks : cache0[k] # "absent")
           => /\ SumOver(netCalls, Tasks) = 0
              /\ fBytes = 0
              /\ cache = cache0

\* C5 witness: a second call over a fully populated cache has returned
C5_Witness ==
    /\ fPc = "returned"
    /\ NumTiles = MaxTiles
    /\ \A k \in Tasks : cache0[k] = "full" /\ tOut[k] = "hit"

\* C6: get_tiles is past its barrier only when every submitted task has
\* finished, once, and it never ends by raising, whichever tiles fail.
C6_BarrierNoRaise ==
    /\ AtBarrier =>
           /\ fSubmitted = NumTiles
           /\ \A k \in Tasks : tPc[k] = "done" /\ tDone[k] = 1
    /\ fPc # "raised"
    /\ \A k \in Tasks : ~tExc[k]

\* C6 witness: get_tiles has returned although every tile failed
C6_Witness ==
    /\ fPc = "returned"
    /\ NumTiles = MaxTiles
    /\ \A k \in Tasks : tOut[k] = "failed"

\* C7: with more tasks than workers every task finishes exactly once, at
\* the barrier the counter is the sum of the sizes of the tiles downloaded,
\* and the counter never decreases during a call.
C7_CounterConserved ==
    /\ [](AtBarrier =>
             /\ \A k \in Tasks : tPc[k] = "done" /\ tDone[k] = 1
             /\ fBytes = SumOver(tSize, Downloaded))
    /\ [](InFlight <= MaxWorkers)
    /\ [][fPc # "idle" => fBytes' >= fBytes]_vars

\* C7 witness: more tiles than workers were downloaded, of different sizes
C7_Witness ==
    /\ fPc = "returned"
    /\ NumTiles > MaxWorkers
    /\ Downloaded = Tasks
    /\ tSize[1] # tSize[2]
    /\ fBytes = SumOver(tSize, Tasks)

RepRunning == repPc \in {"wait", "acquire"}

\* C13: the reporter thread runs from before the first task is submitted;
\* stop_event is set only after the barrier over all tasks; get_tiles has
\* returned only with the reporter ended; and once stop_event is set the
\* reporter ends.
C13_ReporterLifetime ==
    /\ [](fPc \in {"submit", "result", "stop"} => RepRunning)
    /\ [](\A k \in TileSlots : tPc[k] # "none" => repPc # "none")
    /\ [](stopEvent =>
              /\ fPc \in {"join", "returned", "idle"}
              /\ fSubmitted = NumTiles
              /\ \A k \in Tasks : tPc[k] = "done")
    /\ [](fPc = "returned" => repPc = "exited")
    /\ [][(fPc = "join" /\ fPc' # "join") => repPc = "exited"]_vars
    /\ (stopEvent ~> repPc = "exited")

\* C13 witness: get_tiles has returned, the reporter ended, after a call
\* that downloaded a tile and lost another
C13_Witness ==
    /\ fPc = "returned"
    /\ repPc = "exited"
    /\ stopEvent
    /\ NumTiles = MaxTiles
    /\ tOut[1] = "ok"
    /\ tOut[2] = "failed"

\* C14: at every moment of a get_tiles call the tasks started and not yet
\* finished are at most as many as the pool has workers (20 in the program,
\* MaxWorkers here), whatever the grid.
C14_InFlightBounded ==
    /\ InFlight <= MaxWorkers
    /\ \A k \in Tasks : tPc[k] \in Running => k < nextStart

\* C14 witness: every worker is busy and a submitted task waits in the queue
C14_Witness ==
    /\ InFlight = MaxWorkers
    /\ NumTiles > MaxWorkers
    /\ fSubmitted = NumTiles
    /\ \E k \in Tasks : tPc[k] = "queued"

\* C15: in one get_tiles call the tasks submitted stand one to one for the
\* coordinates (row, col) with row < ht and col < wt, each is run once, so
\* no two running tasks have the same coordinate (cache file), and a
\* coordinate gets at most one network request: a failed one is not retried.
C15_OneTaskPerCoordinate ==
    /\ \A k1, k2 \in Tasks : k1 # k2 => Coord(k1) # Coord(k2)
    /\ {Coord(k) : k \in Tasks} = GridCells
    /\ fSubmitted <= NumTiles
    /\ fPc \in {"result", "stop", "join", "returned"} => fSubmitted = NumTiles
    /\ \A k1, k2 \in Tasks :
           (k1 # k2 /\ tPc[k1] \in Running /\ tPc[k2] \in Running)
               => Coord(k1) # Coord(k2)
    /\ \A k \in Tasks :
           /\ tDone[k] <= 1
           /\ netCalls[k] <= 1
           /\ tOut[k] = "failed" => (tPc[k] = "done" /\ netCalls[k] = 1)

\* C15 witness: two workers are transferring tiles of different columns
\* while the task of another coordinate has failed after its one request
C15_Witness ==
    /\ NumTiles = MaxTiles
    /\ \E k1, k2, k3 \in Tasks :
           /\ k1 # k2
           /\ tPc[k1] = "transfer"
           /\ tPc[k2] = "transfer"
           /\ Coord(k1) # Coord(k2)
           /\ tOut[k3] = "failed"
           /\ netCalls[k3] = 1

(***************************************************************************)
(* Properties of the grid computation                                      *)
(***************************************************************************)
IsExample == gWidth = 10000 /\ gHeight = 8000 /\ gTile = 256

\* C8 as stated: 10000 x 8000 with 256-pixel tiles gives maxLevel 6 and a
\* grid of 40 columns and 32 rows.
C8_ExampleAsStated ==
    (gPc = "done" /\ IsExample) => gMaxLevel = 6 /\ gWt = 40 /\ gHt = 32

\* C8 as amended: 10000 x 8000 with 256-pixel tiles gives maxLevel 6 and a
\* grid of 41 columns and 33 rows.
C8_Example ==
    (gPc = "done" /\ IsExample) => gMaxLevel = 6 /\ gWt = 41 /\ gHt = 33

\* C8 witness: the grid of the example has been computed
C8_Witness == gPc = "done" /\ IsExample

\* tile_size * 2^L >= m, for L of either sign
Reaches(L, m, tile_size) ==
    IF L >= 0 THEN Pow2(L) >= CeilDiv(m, tile_size)
    ELSE tile_size \div Pow2(0 - L) >= m

\* n = ceil(dim / tile_size): the least n with n * tile_size >= dim
IsCeil(n, dim, tile_size) ==
    /\ n >= 0
    /\ n >= dim \div tile_size
    /\ n * tile_size >= dim
    /\ (n - 1) * tile_size < dim

\* C9: for all positive width, height and tileSize the grid has
\* ceil(width/tileSize) + 1 columns and ceil(height/tileSize) + 1 rows, and
\* maxLevel is the least integer L with tileSize * 2^L >= max(width, height).
C9_GridFormula ==
    gPc = "done" =>
        /\ IsCeil(gWt - 1, gWidth, gTile)
        /\ IsCeil(gHt - 1, gHeight, gTile)
        /\ Reaches(gMaxLevel, Max(gWidth, gHeight), gTile)
        /\ ~Reaches(gMaxLevel - 1, Max(gWidth, gHeight), gTile)

\* C16 as stated: for all positive width, height and tileSize the
\* assembler visits one row and one column fewer than the fetcher downloads.
C16_OneFewerAsStated ==
    gPc = "done" =>
        /\ AsmCount(gHeight, gTile) = gHt - 1
        /\ AsmCount(gWidth, gTile) = gWt - 1

\* C16 as amended: the assembler visits one row (column) fewer than the
\* fetcher downloads when tileSize does not divide the height (width), and
\* as many rows (columns) as the fetcher downloads when it does.
C16_OneFewerUnlessMultiple ==
    gPc = "done" =>
        /\ AsmCount(gHeight, gTile) =
               IF gHeight % gTile = 0 THEN gHt ELSE gHt - 1
        /\ AsmCount(gWidth, gTile) =
               IF gWidth % gTile = 0 THEN gWt ELSE gWt - 1

\* C16 witness: a grid was computed for a height tileSize does not divide
\* and a width it divides, with more than one tile each way
C16_Witness ==
    /\ gPc = "done"
    /\ gHeight % gTile # 0
    /\ gWidth % gTile = 0
    /\ gHeight > gTile
    /\ gWidth > gTile
    /\ AsmCount(gHeight, gTile) = gHt - 1
    /\ AsmCount(gWidth, gTile) = gWt

\* C19: for all positive width, height and tileSize the rows and columns
\* the assembler reads, 0 .. floor(dim/tileSize), lie inside the rows and
\* columns the fetcher attempted, 0 .. ceil(dim/tileSize).
C19_AsmInsideFetchGrid ==
    gPc = "done" =>
        /\ LastCell(gHeight, gTile) <= gHt - 1
        /\ LastCell(gWidth, gTile) <= gWt - 1
        /\ AsmCount(gHeight, gTile) <= gHt
        /\ AsmCount(gWidth, gTile) <= gWt

\* C19 witness: a grid whose last assembled row is the last row fetched
\* (tileSize divides the height) and whose last assembled column is not
C19_Witness ==
    /\ gPc = "done"
    /\ gHeight % gTile = 0
    /\ LastCell(gHeight, gTile) = gHt - 1
    /\ gWidth % gTile # 0
    /\ LastCell(gWidth, gTile) = gWt - 2

(***************************************************************************)
(* Properties of the queue                                                 *)
(***************************************************************************)
\* the job ids the store holds, in order
IdsOf(lines) == [k \in 1..Len(lines) |-> IntOf(Strip(lines[k]))]

InPipeline == procPc \in Range(Stages)

\* C1: after any sequence of Add and Process operations from an empty
\* store, no job id is stored twice.
C1_NoDuplicateIds ==
    addPc = "idle" =>
        \A i, j \in 1..Len(qLines) :
            i # j => IdsOf(qLines)[i] # IdsOf(qLines)[j]

\* C2: Process rewrites the store only after the whole pipeline of the
\* first entry has returned; when a step raises, the loop has stopped with
\* the store as it was when the iteration began, its first line is still
\* the line that was being processed, and the next Process call reads that
\* line again.
C2_RemoveOnlyAfterPipeline ==
    /\ procPc \in {"read", "parse", "crashed", "rem_read", "rem_trunc"}
            \cup Range(Stages)
        => qLines = iterStore
    /\ procPc = "crashed"
        => /\ qLines # <<>>
           /\ Strip(Head(qLines)) = procLine
           /\ removed = Len(completed)
    /\ procPc \in {"rem_read", "rem_trunc", "rem_write"}
        => /\ Len(completed) = removed + 1
           /\ completed[Len(completed)] = procId
           /\ IntOf(procLine) = procId
    /\ removed <= Len(completed)
    /\ (procPc = "parse" /\ retryLine # <<>>) => procLine = retryLine

\* C2 witness: a step of the pipeline has raised on a store with two lines
\* after an earlier job of the same call completed
C2_Witness ==
    /\ procPc = "crashed"
    /\ Len(qLines) = 2
    /\ removed = 1
    /\ Len(runs) = 2

\* C3: Process runs the pipeline for the entries of the store in their
\* order, one entry at a time: a pipeline is running only for the first
\* entry of the store, after every earlier entry's pipeline completed and
\* that entry was removed; a call in which no pipeline raises ends with
\* every entry run once, in order, and the store empty.
C3_FifoOrder ==
    /\ procPc \notin {"idle", "crashed"}
        => /\ Len(runs) <= Len(procStart)
           /\ runs = SubSeq(IdsOf(procStart), 1, Len(runs))
           /\ completed = SubSeq(runs, 1, Len(completed))
    /\ InPipeline
        => /\ Len(runs) = removed + 1
           /\ Len(completed) = removed
           /\ qLines = SubSeq(procStart, removed + 1, Len(procStart))
    /\ procPc = "done"
        => /\ runs = IdsOf(procStart)
           /\ completed = runs
           /\ removed = Len(procStart)
           /\ qLines = <<>>

\* C3 witness: Process has run three entries and emptied the store
C3_Witness ==
    /\ procPc = "done"
    /\ Len(runs) = 3
    /\ runs[1] # runs[2]
    /\ qLines = <<>>

\* the ids the lines of a store stand for
HeldIn(lines) ==
    {IntOf(Strip(lines[k])) : k \in {i \in 1..Len(lines) : IsNumeral(Strip(lines[i]))}}

\* the candidates of ids that are not in held, each as the line written for
\* it, in their order
RECURSIVE KeepNew(_, _)
KeepNew(ids, held) ==
    IF ids = <<>> THEN <<>>
    ELSE (IF Head(ids) \in held THEN <<>> ELSE <<Str(Head(ids))>>)
             \o KeepNew(Tail(ids), held)

\* C12: Add(ids) on a store holding S leaves S as a prefix and appends
\* after it exactly the candidates that were not in S, in the order of ids;
\* a candidate that is in S is not appended.
C12_AppendsNewInOrder ==
    [][(addPc = "write" /\ addPc' = "idle")
           => qLines' = addStart \o KeepNew(addIds, HeldIn(addStart))]_vars

\* C12 witness: an Add of two candidates on a store of one entry has ended;
\* the candidate the store held was skipped and the other one appended
C12_Witness ==
    /\ addPc = "idle"
    /\ procPc = "idle"
    /\ Len(addStart) = 1
    /\ Len(addIds) = 2
    /\ addIds[1] \in HeldIn(addStart)
    /\ addIds[2] \notin HeldIn(addStart)
    /\ qLines = Append(addStart, Str(addIds[2]))

\* C17: with Add running beside Process, every id Add appended is in the
\* store unless a pipeline run for it has completed since (looked at while
\* remove_first_line is not in the middle of its rewrite).
C17_NoIdLost ==
    procPc # "rem_write" => owed \subseteq HeldIn(qLines)

\* C18: when a Process pass is interrupted, the store holds what the pass
\* began with minus a prefix of entries whose pipelines completed, in its
\* order: every entry whose pipeline has not completed is still there.
C18_InterruptKeepsStore ==
    procPc = "crashed" =>
        \E n \in removed..Len(completed) :
            qLines = SubSeq(procStart, n + 1, Len(procStart))

BlankFirst == qLines # <<>> /\ Strip(Head(qLines)) = <<>>

\* C20: a Process call ends (its loop stops or an error ends the program);
\* an iteration that does not end the loop has removed exactly the first
\* line of the store; the loop stops only on an absent or empty store or a
\* blank first line; on a blank first line it stops with no pipeline run
\* and the store unchanged, whatever the later lines hold.
C20_ProcessTerminates ==
    /\ (procPc = "loop") ~> (procPc \in {"done", "crashed"})
    /\ [][(procPc \notin {"idle", "loop"} /\ procPc' = "loop")
              => /\ iterStore # <<>>
                 /\ qLines' = Tail(iterStore)]_vars
    /\ [](procPc = "done" => (~qExists \/ qLines = <<>> \/ BlankFirst))
    /\ [][(procPc = "read" /\ BlankFirst)
              => (procPc' = "done" /\ qLines' = qLines /\ runs' = runs)]_vars
    /\ []((procPc = "done" /\ BlankFirst)
              => qLines = SubSeq(procStart, removed + 1, Len(procStart)))

\* C20 witness: Process has stopped on a blank first line with an id on the
\* line after it, having run no pipeline and changed nothing
C20_Witness ==
    /\ procPc = "done"
    /\ Len(qLines) = 2
    /\ BlankFirst
    /\ IsNumeral(qLines[2])
    /\ runs = <<>>
    /\ qLines = procStart

=============================================================================
